---- MODULE Spec2Model ----
(***************************************************************************)
(* A model of src/src/globals.rs: the global state GLOBALS (the            *)
(* relationship graph and its lock, the event store and the signer it      *)
(* consults, the storage's relay records, the connected relays, the        *)
(* channels to the overlord and to the minions, the shutdown flag and the  *)
(* current zap), and the operations of impl Globals on it.  The parts of   *)
(* the program that use this state from outside globals.rs (the overlord,  *)
(* the minions, the relay picker, the zap flow) follow spec.md.            *)
(***************************************************************************)
EXTENDS Integers, Sequences, FiniteSets, TLC

\* ------------------------------------------------------------------ bounds

\* The graph holds at most MaxEdges edges in all.
MaxEdges == 3
\* Public keys are 1..NumKeys.
NumKeys == 2

\* Event ids; every id can be a target and a source.
Ids == {1, 2}
PublicKeys == 1..NumKeys

\* Reaction texts, as sequences of characters: the empty text, "+" and "-1".
Texts == {<<>>, <<"+">>, <<"-", "1">>}
\* The tasks that call add_relationship concurrently, and those that query.
Writers == {"w1", "w2"}
Readers == {"r1"}
\* The queries.
Queries == {"get_replies_sync", "get_reactions_sync", "get_zap_total_sync",
            "get_deletion_sync"}
\* The overlord's queue holds at most MaxQueue commands.
MaxQueue == 2
\* A minion is assigned at most MaxJobs jobs.
MaxJobs == 2
\* At most MaxSent messages are sent on to_minions.
MaxSent == 257
\* The minions.
Agents == {1, 2}
\* Relay ranks.
Ranks == {1, 3}
\* Deletion reasons.
Reasons == {"spam", "duplicate"}
\* Zap amounts, in millisatoshi.
Amounts == {500, 1000, 2000}

\* ------------------------------------------------------------------- types

\* Option<T>
None == <<>>
Some(x) == <<x>>

\* enum Relationship, as globals.rs matches on it
Reply == <<"Reply">>
Reaction(reaction) == <<"Reaction", reaction>>
Deletion(deletion) == <<"Deletion", deletion>>
ZapReceipt(millisats) == <<"ZapReceipt", millisats>>

Relationship ==
    {Reply} \cup {Reaction(t) : t \in Texts} \cup {Deletion(d) : d \in Reasons}
        \cup {ZapReceipt(a) : a \in Amounts}

\* The relationships each specification draws its edges from: every kind
\* for the graph alone, the reaction texts where the event store and the
\* signer vary too, one edge of each queried kind where arrival order varies.
GraphInputs ==
    {Reply, Reaction(<<"+">>)} \cup {Deletion(d) : d \in Reasons}
        \cup {ZapReceipt(a) : a \in Amounts}
ReactionInputs == {Reaction(t) : t \in Texts}
ForwardInputs == {Reply, Reaction(<<"+">>), ZapReceipt(500)}

\* The edges the concurrent calls add, all to one target.
LockTarget == CHOOSE id \in Ids : \A other \in Ids : id <= other
LockEdges ==
    {<<1, Reply>>, <<2, Reply>>, <<1, ZapReceipt(500)>>, <<1, Deletion("spam")>>}

\* The code point of a character: the order of char, which sorts the tally.
CharCode(ch) ==
    CASE ch = "+" -> 43
      [] ch = "-" -> 45
      [] ch = "1" -> 49

\* PublicKey -> PublicKeyHex: the key's bytes in lowercase hexadecimal (here
\* one byte, two digits).
HexDigit(n) ==
    <<"0", "1", "2", "3", "4", "5", "6", "7", "8", "9", "a", "b", "c", "d", "e", "f">>[n + 1]

PublicKeyHex(pubkey) == <<HexDigit((pubkey \div 16) % 16), HexDigit(pubkey % 16)>>

\* ------------------------------------------------------------------- state

VARIABLES
    relationships,  \* GLOBALS.relationships: HashMap<Id, Vec<(Id, Relationship)>>
    events,         \* GLOBALS.events: the events in memory, by id
    public_key,     \* GLOBALS.signer.public_key(): Option<PublicKey>
    current_zap,    \* GLOBALS.current_zap: ZapState
    calls,          \* the external calls of the zap flow that are in flight
    zap_error,      \* the error the zap flow has shown the user, if any
    forward,        \* history: the <<target, edge>> pairs added while the
                    \* target event was not in the event store
    relays,         \* GLOBALS.storage: the relay records it holds, by url
    storage_ok,     \* whether a read of GLOBALS.storage succeeds
    connected_relays,  \* GLOBALS.connected_relays: DashMap<RelayUrl, Vec<RelayJob>>
    sent,           \* GLOBALS.to_minions: the number of messages sent on it
    cursor,         \* GLOBALS.to_minions: for each subscribed minion, the
                    \* number of the last message its receiver has passed
    missed,         \* history: for each subscribed minion, how many messages
                    \* its receiver has passed without returning them
    shutting_down,  \* GLOBALS.shutting_down
    to_overlord,    \* GLOBALS.to_overlord: the queue of commands to the overlord
    overlord,       \* where the overlord is: "running", "waiting", "done"
    waiting_for,    \* the minions the overlord's shutdown waits for
    jobs,           \* the number of jobs assigned to each minion
    rejected,       \* history: the minions a job was refused for
    rw_writer,      \* the RwLock of GLOBALS.relationships: the task that holds
                    \* it for writing, if any
    rw_readers,     \* the RwLock: the tasks that hold it for reading
    wpc,            \* where each task that calls add_relationship is
    wargs,          \* the (id, r) of its call, kept after the call returned
    found,          \* what its look at the entry of id found
    rpc,            \* where each task that calls a query is
    rquery,         \* the query it calls and the id it asks about
    seen,           \* the edges its loop has visited
    result,         \* what the query returned
    snap,           \* history: the edge list of id when it took the lock
    acquired        \* history: how many times its call took the lock

\* The variables by the part of the state they belong to; outside is what
\* the operations on the graph, the event store, the signer and the zap
\* state leave alone.
relay_vars == <<relays, storage_ok, connected_relays>>
chan_vars == <<sent, cursor, missed>>
orch_vars == <<shutting_down, to_overlord, overlord, waiting_for, jobs, rejected>>
lock_vars == <<rw_writer, rw_readers, wpc, wargs, found, rpc, rquery, seen, result,
               snap, acquired>>
outside == <<relay_vars, chan_vars, orch_vars, lock_vars>>

graph_vars == <<relationships, events, public_key, current_zap, calls, zap_error,
                forward>>

\* All the variables but those of one part of the state.
not_relay == <<graph_vars, chan_vars, orch_vars, lock_vars>>
not_chan == <<graph_vars, relay_vars, orch_vars, lock_vars>>
not_chan_orch == <<graph_vars, relay_vars, lock_vars>>
not_graph_lock == <<events, public_key, current_zap, calls, zap_error, forward,
                    relay_vars, chan_vars, orch_vars>>

vars == <<graph_vars, outside>>

\* GLOBALS.events.get(id): Option<Event>
events_get(id) == IF id \in DOMAIN events THEN Some(events[id]) ELSE None

\* GLOBALS.relationships...get(&id): Option<&Vec<(Id, Relationship)>>
relationships_get(id) ==
    IF id \in DOMAIN relationships THEN Some(relationships[id]) ELSE None

\* vec.contains(&r)
Contains(vec, r) == \E i \in 1..Len(vec) : vec[i] = r

RECURSIVE SumLens(_, _)
SumLens(map, keys) ==
    IF keys = {} THEN 0
    ELSE LET k == CHOOSE x \in keys : TRUE
         IN Len(map[k]) + SumLens(map, keys \ {k})

TotalEdges(map) == SumLens(map, DOMAIN map)

\* ------------------------------------------------------- add_relationship

\* Faulty variant: the edge is pushed without the contains() check.
insert_edge_unchecked(map, id, r) ==
    IF id \in DOMAIN map
    THEN [map EXCEPT ![id] = Append(@, r)]
    ELSE [k \in DOMAIN map \cup {id} |-> IF k = id THEN <<r>> ELSE map[k]]

\* Faulty variant: a new edge is put at the front of the list.
insert_edge_front(map, id, r) ==
    IF id \in DOMAIN map
    THEN [map EXCEPT ![id] = IF Contains(@, r) THEN @ ELSE <<r>> \o @]
    ELSE [k \in DOMAIN map \cup {id} |-> IF k = id THEN <<r>> ELSE map[k]]

\* relationships.entry(id).and_modify(..).or_insert_with(..)
insert_edge(map, id, r) ==
    IF id \in DOMAIN map
    THEN [map EXCEPT ![id] = IF Contains(@, r) THEN @ ELSE Append(@, r)]
    ELSE [k \in DOMAIN map \cup {id} |-> IF k = id THEN <<r>> ELSE map[k]]

\* Faulty variant: an edge whose target is not in the event store is dropped.
add_relationship_known_target(id, related, relationship) ==
    LET r == <<related, relationship>>
    IN /\ TotalEdges(insert_edge(relationships, id, r)) <= MaxEdges
       /\ relationships' = IF id \in DOMAIN events
                           THEN insert_edge(relationships, id, r)
                           ELSE relationships
       /\ UNCHANGED <<events, public_key, current_zap, calls, zap_error, outside>>

add_relationship(id, related, relationship) ==
    LET r == <<related, relationship>>
        inserted == insert_edge(relationships, id, r)
    IN /\ TotalEdges(inserted) <= MaxEdges
       /\ relationships' = inserted
       /\ UNCHANGED <<events, public_key, current_zap, calls, zap_error, outside>>

\* The history of the edges added for a target the store does not hold.
Recorded(id, related, relationship) ==
    forward' = IF id \notin DOMAIN events
               THEN forward \cup {<<id, <<related, relationship>>>>}
               ELSE forward

\* ---------------------------------------------------------- get_replies_sync

\* Faulty variant: the loop pushes the id of every edge, whatever its kind.
RECURSIVE replies_loop_any_kind(_, _, _)
replies_loop_any_kind(vec, i, output) ==
    IF i > Len(vec) THEN output
    ELSE replies_loop_any_kind(vec, i + 1, Append(output, vec[i][1]))

RECURSIVE replies_loop(_, _, _)
replies_loop(vec, i, output) ==
    IF i > Len(vec) THEN output
    ELSE LET id == vec[i][1]
             relationship == vec[i][2]
         IN replies_loop(vec, i + 1,
                IF relationship = Reply THEN Append(output, id) ELSE output)

get_replies_sync(id) ==
    LET got == relationships_get(id)
    IN IF got # None THEN replies_loop(got[1], 1, <<>>) ELSE <<>>

\* -------------------------------------------------------- get_reactions_sync

\* Faulty variant: the symbol is the last character of the text.
reaction_symbol_last(reaction) ==
    IF Len(reaction) > 0 THEN reaction[Len(reaction)] ELSE "+"

\* reaction.chars().next(), '+' when the text is empty
reaction_symbol(reaction) == IF Len(reaction) > 0 THEN Head(reaction) ELSE "+"

\* Faulty variant: every reaction adds an element of its own to the symbol's
\* collection (a Vec where the code has a HashSet).
tally_insert_push(output, symbol, pubkey) ==
    IF symbol \in DOMAIN output
    THEN [output EXCEPT ![symbol] =
             @ \cup {PublicKeyHex(pubkey) \o <<HexDigit(Cardinality(@))>>}]
    ELSE [c \in DOMAIN output \cup {symbol} |->
             IF c = symbol THEN {PublicKeyHex(pubkey)} ELSE output[c]]

\* output.entry(symbol).and_modify(insert).or_insert_with(new set)
tally_insert(output, symbol, pubkey) ==
    IF symbol \in DOMAIN output
    THEN [output EXCEPT ![symbol] = @ \cup {PublicKeyHex(pubkey)}]
    ELSE [c \in DOMAIN output \cup {symbol} |->
             IF c = symbol THEN {PublicKeyHex(pubkey)} ELSE output[c]]

\* Faulty variant: the flag is assigned the comparison, so the last reaction decides.
reacted_self_assigned(e, self_already_reacted) == Some(e.pubkey) = public_key

\* if Some(e.pubkey) == GLOBALS.signer.public_key() { self_already_reacted = true }
reacted_self(e, self_already_reacted) ==
    IF Some(e.pubkey) = public_key THEN TRUE ELSE self_already_reacted

\* Faulty variant: a reaction whose event the store does not hold is counted
\* too, under the key of no author.
reactions_body_unknown_author(other_id, relationship, acc) ==
    LET got == events_get(other_id)
    IN IF relationship[1] = "Reaction"
       THEN IF got # None
            THEN <<tally_insert(acc[1], reaction_symbol(relationship[2]), got[1].pubkey),
                   reacted_self(got[1], acc[2])>>
            ELSE <<tally_insert(acc[1], reaction_symbol(relationship[2]), 0), acc[2]>>
       ELSE acc

\* One pass of the loop body over (other_id, relationship); acc is
\* <<output, self_already_reacted>>.
reactions_body(other_id, relationship, acc) ==
    LET got == events_get(other_id)
    IN IF got # None
       THEN LET e == got[1]
            IN IF relationship[1] = "Reaction"
               THEN <<tally_insert(acc[1], reaction_symbol(relationship[2]), e.pubkey),
                      reacted_self(e, acc[2])>>
               ELSE acc
       ELSE acc

RECURSIVE reactions_loop(_, _, _)
reactions_loop(vec, i, acc) ==
    IF i > Len(vec) THEN acc
    ELSE reactions_loop(vec, i + 1, reactions_body(vec[i][1], vec[i][2], acc))

\* (char, usize) tuples in their order: by character, then by count
PairLeq(x, y) ==
    \/ CharCode(x[1]) < CharCode(y[1])
    \/ CharCode(x[1]) = CharCode(y[1]) /\ x[2] <= y[2]

RECURSIVE sort_pairs(_)
sort_pairs(S) ==
    IF S = {} THEN <<>>
    ELSE LET m == CHOOSE x \in S : \A y \in S : PairLeq(x, y)
         IN <<m>> \o sort_pairs(S \ {m})

\* output.iter().map(|(c, u)| (*c, u.len())).collect(); v.sort()
tally_vec(output) ==
    sort_pairs({<<c, Cardinality(output[c])>> : c \in DOMAIN output})

get_reactions_sync(id) ==
    LET got == relationships_get(id)
        acc == IF got # None
               THEN reactions_loop(got[1], 1, <<<<>>, FALSE>>)
               ELSE <<<<>>, FALSE>>
    IN <<tally_vec(acc[1]), acc[2]>>

\* -------------------------------------------------------- get_zap_total_sync

\* total = total + *millisats (MilliSatoshi is a u64; the amounts of the
\* model stay far below 2^64)
\* Faulty variant: a receipt of an amount already seen earlier in the list is skipped.
RECURSIVE zap_loop_dedup(_, _, _)
zap_loop_dedup(vec, i, total) ==
    IF i > Len(vec) THEN total
    ELSE LET relationship == vec[i][2]
         IN zap_loop_dedup(vec, i + 1,
                IF /\ relationship[1] = "ZapReceipt"
                   /\ ~ \E j \in 1..(i - 1) : vec[j][2] = relationship
                THEN total + relationship[2]
                ELSE total)

RECURSIVE zap_loop(_, _, _)
zap_loop(vec, i, total) ==
    IF i > Len(vec) THEN total
    ELSE LET relationship == vec[i][2]
         IN zap_loop(vec, i + 1,
                IF relationship[1] = "ZapReceipt" THEN total + relationship[2]
                ELSE total)

get_zap_total_sync(id) ==
    LET got == relationships_get(id)
    IN IF got # None THEN zap_loop(got[1], 1, 0) ELSE 0

\* --------------------------------------------------------- get_deletion_sync

\* Faulty variant: the loop runs to the end and keeps the last reason it saw.
RECURSIVE deletion_loop_last(_, _)
deletion_loop_last(vec, i) ==
    IF i > Len(vec) THEN None
    ELSE LET relationship == vec[i][2]
             rest == deletion_loop_last(vec, i + 1)
         IN IF rest # None THEN rest
            ELSE IF relationship[1] = "Deletion" THEN Some(relationship[2])
            ELSE None

RECURSIVE deletion_loop(_, _)
deletion_loop(vec, i) ==
    IF i > Len(vec) THEN None
    ELSE LET relationship == vec[i][2]
         IN IF relationship[1] = "Deletion" THEN Some(relationship[2])
            ELSE deletion_loop(vec, i + 1)

\* Faulty variant: a target without entry is reported as deleted, with an
\* empty reason.
get_deletion_sync_default(id) ==
    LET got == relationships_get(id)
    IN IF got # None THEN deletion_loop(got[1], 1) ELSE Some("")

get_deletion_sync(id) ==
    LET got == relationships_get(id)
    IN IF got # None THEN deletion_loop(got[1], 1) ELSE None

\* ------------------------------------------------- event store and signer

\* Event Store admit(event): Inserted when the id is new, AlreadyPresent (no
\* change) otherwise; events are never removed nor changed.
admit(id, pubkey) ==
    /\ events' = IF id \in DOMAIN events
                 THEN events
                 ELSE [k \in DOMAIN events \cup {id} |->
                          IF k = id THEN [pubkey |-> pubkey] ELSE events[k]]
    /\ UNCHANGED <<relationships, public_key, current_zap, calls, forward, zap_error, outside>>

\* The signer's identity is set, replaced or cleared.
set_public_key(pk) ==
    /\ public_key' = pk
    /\ UNCHANGED <<relationships, events, current_zap, calls, forward, zap_error, outside>>

\* ---------------------------------------------------------------- ZapState

\* enum ZapState, each variant with the target event Id and the recipient
\* PublicKey it carries (the urls, the pay request data and the invoice are
\* data that no transition reads)
ZapNone == <<"None">>
CheckingLnurl(id, pubkey) == <<"CheckingLnurl", id, pubkey>>
SeekingAmount(id, pubkey) == <<"SeekingAmount", id, pubkey>>
LoadingInvoice(id, pubkey) == <<"LoadingInvoice", id, pubkey>>
ReadyToPay(id) == <<"ReadyToPay", id>>

\* Faulty variant: the state is constructed as a flow in progress.
initial_zap_in_progress == LoadingInvoice(1, 1)

\* current_zap: PRwLock::new(ZapState::None)
initial_zap == ZapNone

\* A zap request for event id of author pubkey: the flow starts, whatever
\* the state was, and the LNURL endpoint is asked.
zap_start(id, pubkey) ==
    /\ current_zap' = CheckingLnurl(id, pubkey)
    /\ calls' = calls \cup {<<"lnurl", id, pubkey>>}
    /\ zap_error' = None
    /\ UNCHANGED <<relationships, events, public_key, forward, outside>>

\* Faulty variant: the answer is written to the state without looking at it.
after_lnurl_unchecked(zap, id, pubkey) == SeekingAmount(id, pubkey)

\* The state after the LNURL endpoint answered the call made for event id.
after_lnurl(zap, id, pubkey) ==
    IF zap = CheckingLnurl(id, pubkey) THEN SeekingAmount(id, pubkey) ELSE zap

lnurl_responded(id, pubkey) ==
    /\ <<"lnurl", id, pubkey>> \in calls
    /\ calls' = calls \ {<<"lnurl", id, pubkey>>}
    /\ current_zap' = after_lnurl(current_zap, id, pubkey)
    /\ UNCHANGED <<relationships, events, public_key, forward, zap_error, outside>>

\* An amount is chosen and the callback is invoked.
choose_amount(id, pubkey) ==
    /\ current_zap = SeekingAmount(id, pubkey)
    /\ current_zap' = LoadingInvoice(id, pubkey)
    /\ calls' = calls \cup {<<"invoice", id, pubkey>>}
    /\ UNCHANGED <<relationships, events, public_key, forward, zap_error, outside>>

\* The state after the callback returned the invoice asked for event id.
after_invoice(zap, id, pubkey) ==
    IF zap = LoadingInvoice(id, pubkey) THEN ReadyToPay(id) ELSE zap

invoice_returned(id, pubkey) ==
    /\ <<"invoice", id, pubkey>> \in calls
    /\ calls' = calls \ {<<"invoice", id, pubkey>>}
    /\ current_zap' = after_invoice(current_zap, id, pubkey)
    /\ UNCHANGED <<relationships, events, public_key, forward, zap_error, outside>>

\* Faulty variant: the failure is swallowed and the state is left as it was.
after_failure_ignored(zap, step, id, pubkey) == zap

\* The state after the external call of a step failed for event id.
after_failure(zap, step, id, pubkey) ==
    IF \/ step = "lnurl" /\ zap = CheckingLnurl(id, pubkey)
       \/ step = "invoice" /\ zap = LoadingInvoice(id, pubkey)
    THEN ZapNone
    ELSE zap

\* The error shown to the user: that of the step that failed, when the call
\* was the one the flow was waiting for.
shown_error(zap, error, step, id, pubkey) ==
    IF after_failure(zap, step, id, pubkey) # zap THEN Some(step) ELSE error

call_failed(step, id, pubkey) ==
    /\ <<step, id, pubkey>> \in calls
    /\ calls' = calls \ {<<step, id, pubkey>>}
    /\ current_zap' = after_failure(current_zap, step, id, pubkey)
    /\ zap_error' = shown_error(current_zap, zap_error, step, id, pubkey)
    /\ UNCHANGED <<relationships, events, public_key, forward, outside>>

\* Cancellation, from every state but Idle.
zap_cancel ==
    /\ current_zap # ZapNone
    /\ current_zap' = ZapNone
    /\ UNCHANGED <<relationships, events, public_key, calls, forward, zap_error, outside>>

\* ------------------------------------------- the lock of the relationships

\* Faulty variant: the write lock is given whoever holds the lock.
write_available_unlocked(writer, readers) == TRUE

\* Faulty variant: the write lock is given while tasks hold the read lock.
write_available_among_readers(writer, readers) == writer = None

\* relationships.write(): given when no task holds the lock
write_available(writer, readers) == writer = None /\ readers = {}

\* relationships.blocking_read(): given when no task holds the write lock
read_available(writer) == writer = None

\* relationships.entry(id), and vec.contains(&r) for an entry there is
entry_state(map, id, r) ==
    IF id \notin DOMAIN map THEN "vacant"
    ELSE IF Contains(map[id], r) THEN "present" ELSE "absent"

\* vec.push(r) when the entry did not contain r, vec![r] for a vacant entry
entry_apply(map, id, r, state) ==
    CASE state = "vacant" ->
            [k \in DOMAIN map \cup {id} |-> IF k = id THEN <<r>> ELSE map[k]]
      [] state = "absent" -> [map EXCEPT ![id] = Append(@, r)]
      [] state = "present" -> map

\* A task calls add_relationship(id, related, relationship).
w_call(t, id, r) ==
    /\ wpc[t] = "idle"
    /\ TotalEdges(relationships) + Cardinality({u \in Writers : wpc[u] # "idle"})
           < MaxEdges
    /\ wpc' = [wpc EXCEPT ![t] = "lock"]
    /\ wargs' = [wargs EXCEPT ![t] = Some(<<id, r>>)]
    /\ UNCHANGED <<relationships, not_graph_lock, rw_writer, rw_readers, found, rpc,
                   rquery, seen, result, snap, acquired>>

\* GLOBALS.relationships.write().await
w_lock(t) ==
    /\ wpc[t] = "lock"
    /\ write_available(rw_writer, rw_readers)
    /\ rw_writer' = Some(t)
    /\ wpc' = [wpc EXCEPT ![t] = "check"]
    /\ UNCHANGED <<relationships, not_graph_lock, rw_readers, wargs, found, rpc,
                   rquery, seen, result, snap, acquired>>

\* The entry of id is looked up, and searched for r.
w_check(t) ==
    /\ wpc[t] = "check"
    /\ found' = [found EXCEPT ![t] =
                    Some(entry_state(relationships, wargs[t][1][1], wargs[t][1][2]))]
    /\ wpc' = [wpc EXCEPT ![t] = "push"]
    /\ UNCHANGED <<relationships, not_graph_lock, rw_writer, rw_readers, wargs, rpc,
                   rquery, seen, result, snap, acquired>>

\* The edge is pushed, or not, and the function returns, which drops the
\* write guard.
w_push(t) ==
    /\ wpc[t] = "push"
    /\ relationships' =
           entry_apply(relationships, wargs[t][1][1], wargs[t][1][2], found[t][1])
    /\ rw_writer' = IF rw_writer = Some(t) THEN None ELSE rw_writer
    /\ found' = [found EXCEPT ![t] = None]
    /\ wpc' = [wpc EXCEPT ![t] = "idle"]
    /\ UNCHANGED <<not_graph_lock, rw_readers, wargs, rpc, rquery, seen, result,
                   snap, acquired>>

\* The queries, on the edges a loop has visited.
query_on(query, vec) ==
    CASE query = "get_replies_sync" -> replies_loop(vec, 1, <<>>)
      [] query = "get_reactions_sync" ->
            LET acc == reactions_loop(vec, 1, <<<<>>, FALSE>>)
            IN <<tally_vec(acc[1]), acc[2]>>
      [] query = "get_zap_total_sync" -> zap_loop(vec, 1, 0)
      [] query = "get_deletion_sync" -> deletion_loop(vec, 1)

\* Whether the loop of a query is over: the list is exhausted, or
\* get_deletion_sync has come upon a Deletion and returns.
loop_over(query, vec, visited) ==
    \/ Len(visited) >= Len(vec)
    \/ /\ query = "get_deletion_sync"
       /\ visited # <<>>
       /\ visited[Len(visited)][2][1] = "Deletion"

\* A task calls a query about id.
r_call(t, query, id) ==
    /\ rpc[t] \in {"idle", "done"}
    /\ rpc' = [rpc EXCEPT ![t] = "lock"]
    /\ rquery' = [rquery EXCEPT ![t] = Some(<<query, id>>)]
    /\ seen' = [seen EXCEPT ![t] = <<>>]
    /\ result' = [result EXCEPT ![t] = None]
    /\ snap' = [snap EXCEPT ![t] = <<>>]
    /\ acquired' = [acquired EXCEPT ![t] = 0]
    /\ UNCHANGED <<relationships, not_graph_lock, rw_writer, rw_readers, wpc, wargs,
                   found>>

\* GLOBALS.relationships.blocking_read()
r_lock(t) ==
    /\ rpc[t] = "lock"
    /\ read_available(rw_writer)
    /\ rw_readers' = rw_readers \cup {t}
    /\ rpc' = [rpc EXCEPT ![t] = "reading"]
    /\ snap' = [snap EXCEPT ![t] =
                   IF rquery[t][1][2] \in DOMAIN relationships
                   THEN relationships[rquery[t][1][2]] ELSE <<>>]
    /\ acquired' = [acquired EXCEPT ![t] = @ + 1]
    /\ UNCHANGED <<relationships, not_graph_lock, rw_writer, wpc, wargs, found,
                   rquery, seen, result>>

\* One pass of the loop over the list of id, as it is now.
r_step(t) ==
    /\ rpc[t] = "reading"
    /\ rquery[t][1][2] \in DOMAIN relationships
    /\ ~loop_over(rquery[t][1][1], relationships[rquery[t][1][2]], seen[t])
    /\ seen' = [seen EXCEPT ![t] =
                   Append(@, relationships[rquery[t][1][2]][Len(@) + 1])]
    /\ UNCHANGED <<relationships, not_graph_lock, rw_writer, rw_readers, wpc, wargs,
                   found, rpc, rquery, result, snap, acquired>>

\* The loop is over, or there is no entry for id: the query returns, which
\* drops the read guard.
r_unlock(t) ==
    /\ rpc[t] = "reading"
    /\ rquery[t][1][2] \in DOMAIN relationships
           => loop_over(rquery[t][1][1], relationships[rquery[t][1][2]], seen[t])
    /\ result' = [result EXCEPT ![t] = Some(query_on(rquery[t][1][1], seen[t]))]
    /\ rw_readers' = rw_readers \ {t}
    /\ rpc' = [rpc EXCEPT ![t] = "done"]
    /\ UNCHANGED <<relationships, not_graph_lock, rw_writer, wpc, wargs, found,
                   rquery, seen, snap, acquired>>

\* ------------------------------------------------------- get_your_nprofile

\* The relay urls, in the order the storage iterates over its records.
UrlOrder == <<"wss://a", "wss://b", "wss://c">>
Urls == {UrlOrder[i] : i \in 1..Len(UrlOrder)}

\* The usage bits of a relay record, as the set of the bits that are set.
INBOX == "INBOX"
OUTBOX == "OUTBOX"
UsageBits == {INBOX, OUTBOX}

\* RelayUrl and UncheckedUrl: two types that wrap the url text.
RelayUrl(text) == <<"RelayUrl", text>>
UncheckedUrl(text) == <<"UncheckedUrl", text>>
to_unchecked_url(url) == UncheckedUrl(url[2])

\* ri.has_usage_bits(bits): every one of the bits is set.
has_usage_bits(ri, bits) == bits \subseteq ri.usage_bits

\* The relay records there can be.
DbRelays ==
    [url : {RelayUrl(u) : u \in Urls}, usage_bits : SUBSET UsageBits, rank : Ranks]

\* GLOBALS.storage.filter_relays(f): Err when the storage cannot be read,
\* otherwise Ok with the records f accepts, in the storage's order; the
\* closure f is a function from the records to BOOLEAN.
filter_relays(f) ==
    IF ~storage_ok THEN <<"Err", "storage">>
    ELSE LET held == SelectSeq(UrlOrder, LAMBDA u : u \in DOMAIN relays)
             all == [i \in 1..Len(held) |-> relays[held[i]]]
         IN <<"Ok", SelectSeq(all, LAMBDA ri : f[ri])>>

\* Faulty variant: a storage failure gives a profile without relays.
get_your_nprofile_no_relays ==
    IF public_key = None THEN None
    ELSE LET got == filter_relays([ri \in DbRelays |-> has_usage_bits(ri, {OUTBOX})])
             urls == IF got[1] = "Err" THEN <<>> ELSE got[2]
         IN Some([pubkey |-> public_key[1],
                  relays |-> [i \in 1..Len(urls) |-> to_unchecked_url(urls[i].url)]])

get_your_nprofile ==
    IF public_key = None THEN None
    ELSE LET got == filter_relays([ri \in DbRelays |-> has_usage_bits(ri, {OUTBOX})])
         IN IF got[1] = "Err" THEN None
            ELSE Some([pubkey |-> public_key[1],
                       relays |-> [i \in 1..Len(got[2]) |->
                                      to_unchecked_url(got[2][i].url)]])

\* A relay record is written to the storage: a new relay, or new usage bits
\* or a new rank for a relay it holds.
write_relay(text, bits, rank) ==
    /\ relays' = [u \in DOMAIN relays \cup {text} |->
                     IF u = text
                     THEN [url |-> RelayUrl(text), usage_bits |-> bits, rank |-> rank]
                     ELSE relays[u]]
    /\ UNCHANGED <<not_relay, storage_ok, connected_relays>>

\* The storage starts or stops failing its reads.
storage_fault(ok) ==
    /\ storage_ok' = ok
    /\ UNCHANGED <<not_relay, relays, connected_relays>>

\* ------------------------------------------------------------ relay picker

\* connect(url): the relay enters the connected-relay map, with no job.
connect(text) ==
    /\ text \notin DOMAIN connected_relays
    /\ connected_relays' = [u \in DOMAIN connected_relays \cup {text} |->
                               IF u = text THEN <<>> ELSE connected_relays[u]]
    /\ UNCHANGED <<not_relay, relays, storage_ok>>

\* disconnect(url): the relay leaves the map, with its jobs.
disconnect(text) ==
    /\ text \in DOMAIN connected_relays
    /\ connected_relays' = [u \in DOMAIN connected_relays \ {text} |->
                               connected_relays[u]]
    /\ UNCHANGED <<not_relay, relays, storage_ok>>

\* assign(url, job): the job is appended to the relay's list.
assign(text, job) ==
    /\ text \in DOMAIN connected_relays
    /\ Len(connected_relays[text]) < MaxJobs
    /\ connected_relays' = [connected_relays EXCEPT ![text] = Append(@, job)]
    /\ UNCHANGED <<not_relay, relays, storage_ok>>

\* The place of a url in the lexicographic order.
UrlIndex(text) == CHOOSE i \in 1..Len(UrlOrder) : UrlOrder[i] = text

\* The picker's order of two relays that qualify: a connected relay before
\* one that is not, then the higher rank, then the lower url.
Better(u, v) ==
    LET cu == IF u \in DOMAIN connected_relays THEN 1 ELSE 0
        cv == IF v \in DOMAIN connected_relays THEN 1 ELSE 0
    IN \/ cu > cv
       \/ cu = cv /\ relays[u].rank > relays[v].rank
       \/ cu = cv /\ relays[u].rank = relays[v].rank /\ UrlIndex(u) < UrlIndex(v)

\* The best of a set of relays that is not empty.
best_of(candidates) ==
    CHOOSE u \in candidates : \A v \in candidates \ {u} : Better(u, v)

\* Faulty variant: the capability bit is a preference, not a condition: with
\* no relay that has it, the best of the known relays is returned.
best_relay_for_any(need) ==
    LET qualified == {u \in DOMAIN relays : has_usage_bits(relays[u], {need})}
    IN IF qualified # {} THEN Some(relays[best_of(qualified)].url)
       ELSE IF DOMAIN relays # {} THEN Some(relays[best_of(DOMAIN relays)].url)
       ELSE None

\* best_relay_for(need): the best of the known relays that have the bit the
\* need requires, None when there is none.
best_relay_for(need) ==
    LET qualified == {u \in DOMAIN relays : has_usage_bits(relays[u], {need})}
    IN IF qualified = {} THEN None ELSE Some(relays[best_of(qualified)].url)

\* -------------------------------------------------------------- to_minions

\* broadcast::channel(256): the channel keeps the last 256 messages sent.
Capacity == 256

\* The messages are numbered 1, 2, .. in the order of sending, and a message
\* is its number.
Ok(n) == <<"Ok", n>>
Lagged(n) == <<"Lagged", n>>

\* Faulty variant: a new receiver starts at the oldest message the channel
\* still keeps.
subscribe_position_oldest(tail) == IF tail > Capacity THEN tail - Capacity ELSE 0

\* to_minions.subscribe(): the new receiver starts at the tail of the channel,
\* behind every message sent so far.
subscribe_position(tail) == tail

\* receiver.recv() with a message unread: the next message, or Lagged(n)
\* when the n oldest unread messages have been overwritten.
recv_result(tail, pos) ==
    IF tail - pos > Capacity THEN Lagged(tail - pos - Capacity) ELSE Ok(pos + 1)

\* The receiver's position after that recv(): past the message returned, or
\* at the oldest message the channel still keeps.
recv_position(tail, pos) ==
    IF tail - pos > Capacity THEN tail - Capacity ELSE pos + 1

\* A minion subscribes to the channel.
subscribe(a) ==
    /\ a \notin DOMAIN cursor
    /\ cursor' = [b \in DOMAIN cursor \cup {a} |->
                     IF b = a THEN subscribe_position(sent) ELSE cursor[b]]
    /\ missed' = [b \in DOMAIN cursor \cup {a} |-> IF b = a THEN 0 ELSE missed[b]]
    /\ UNCHANGED <<not_chan, sent>>

\* A minion drops its receiver.
unsubscribe(a) ==
    /\ a \in DOMAIN cursor
    /\ cursor' = [b \in DOMAIN cursor \ {a} |-> cursor[b]]
    /\ missed' = [b \in DOMAIN cursor \ {a} |-> missed[b]]
    /\ UNCHANGED <<not_chan, sent>>

\* to_minions.send(message): the message is kept for the receivers there
\* are; with no receiver the send fails and the message is dropped. (Sends
\* are explored while some minion has nothing unread or is not subscribed,
\* which keeps one minion free to fall behind by any number of messages.)
send ==
    /\ sent < MaxSent
    /\ \E a \in Agents : a \in DOMAIN cursor => cursor[a] = sent
    /\ sent' = IF DOMAIN cursor = {} THEN sent ELSE sent + 1
    /\ UNCHANGED <<not_chan, cursor, missed>>

\* A minion's receiver.recv() when there is a message unread for it.
recv(a) ==
    /\ a \in DOMAIN cursor
    /\ cursor[a] < sent
    /\ cursor' = [cursor EXCEPT ![a] = recv_position(sent, @)]
    /\ missed' = [missed EXCEPT ![a] =
                     @ + IF recv_result(sent, cursor[a])[1] = "Lagged"
                         THEN recv_result(sent, cursor[a])[2] ELSE 0]
    /\ UNCHANGED <<not_chan, sent>>

\* ------------------------------------------------- overlord and shutdown

\* The commands to the overlord: a job for a minion, and shutdown.
Job(a) == <<"Job", a>>
Shutdown == <<"Shutdown">>
Commands == {Job(a) : a \in Agents} \cup {Shutdown}

\* to_overlord.send(command): the queue is unbounded and keeps the order.
command(c) ==
    /\ Len(to_overlord) < MaxQueue
    /\ to_overlord' = Append(to_overlord, c)
    /\ UNCHANGED <<not_chan_orch, chan_vars, shutting_down, overlord, waiting_for,
                   jobs, rejected>>

\* Faulty variant: a job is accepted whatever the state.
accepts_always(shutting) == TRUE

\* Whether the overlord accepts a command that is not shutdown.
accepts(shutting) == ~shutting

\* The overlord takes a job command: refused during shutdown; otherwise the
\* minion is started, subscribed to to_minions, when it is not running, and
\* the job is assigned to it.
handle_job(a) ==
    /\ overlord # "done"
    /\ to_overlord # <<>>
    /\ Head(to_overlord) = Job(a)
    /\ to_overlord' = Tail(to_overlord)
    /\ IF accepts(shutting_down)
       THEN /\ jobs' = [jobs EXCEPT ![a] = IF @ < MaxJobs THEN @ + 1 ELSE @]
            /\ cursor' = IF a \in DOMAIN cursor THEN cursor
                          ELSE [b \in DOMAIN cursor \cup {a} |->
                                  IF b = a THEN subscribe_position(sent) ELSE cursor[b]]
            /\ missed' = IF a \in DOMAIN cursor THEN missed
                          ELSE [b \in DOMAIN cursor \cup {a} |->
                                  IF b = a THEN 0 ELSE missed[b]]
            /\ UNCHANGED rejected
       ELSE /\ rejected' = rejected \cup {a}
            /\ UNCHANGED <<jobs, cursor, missed>>
    /\ UNCHANGED <<not_chan_orch, sent, shutting_down, overlord, waiting_for>>

\* The overlord takes a shutdown command: the first one sets shutting_down,
\* broadcasts shutdown on to_minions and starts waiting for the minions that
\* are running; a later one changes nothing.
handle_shutdown ==
    /\ overlord # "done"
    /\ to_overlord # <<>>
    /\ Head(to_overlord) = Shutdown
    /\ to_overlord' = Tail(to_overlord)
    /\ IF shutting_down
       THEN UNCHANGED <<shutting_down, sent, overlord, waiting_for>>
       ELSE /\ shutting_down' = TRUE
            /\ sent' = IF DOMAIN cursor = {} THEN sent ELSE sent + 1
            /\ overlord' = "waiting"
            /\ waiting_for' = DOMAIN cursor
    /\ UNCHANGED <<not_chan_orch, cursor, missed, jobs, rejected>>

\* A minion receives the shutdown message, stops and reports its
\* termination: it is no longer running and its receiver is dropped.
minion_shutdown(a) ==
    /\ a \in DOMAIN cursor
    /\ cursor[a] < sent
    /\ recv_result(sent, cursor[a])[1] = "Ok"
    /\ cursor' = [b \in DOMAIN cursor \ {a} |-> cursor[b]]
    /\ missed' = [b \in DOMAIN cursor \ {a} |-> missed[b]]
    /\ jobs' = [jobs EXCEPT ![a] = 0]
    /\ UNCHANGED <<not_chan_orch, sent, shutting_down, to_overlord, overlord,
                   waiting_for, rejected>>

\* A minion ends by itself (its jobs are done, or its relay is gone) and
\* reports its termination.
minion_exit(a) ==
    /\ a \in DOMAIN cursor
    /\ cursor' = [b \in DOMAIN cursor \ {a} |-> cursor[b]]
    /\ missed' = [b \in DOMAIN cursor \ {a} |-> missed[b]]
    /\ jobs' = [jobs EXCEPT ![a] = 0]
    /\ UNCHANGED <<not_chan_orch, sent, shutting_down, to_overlord, overlord,
                   waiting_for, rejected>>

\* Faulty variant: the overlord does not wait for the minions.
shutdown_complete_at_once(waiting, running) == TRUE

\* Whether every minion the shutdown waits for has reported termination.
shutdown_complete(waiting, running) == waiting \cap running = {}

\* The overlord's shutdown completes.
overlord_finish ==
    /\ overlord = "waiting"
    /\ shutdown_complete(waiting_for, DOMAIN cursor)
    /\ overlord' = "done"
    /\ UNCHANGED <<not_chan_orch, chan_vars, shutting_down, to_overlord, waiting_for,
                   jobs, rejected>>

\* -------------------------------------------------------------------- specs

\* lazy_static! GLOBALS
Init ==
    /\ relationships = <<>>
    /\ events = <<>>
    /\ public_key = None
    /\ current_zap = initial_zap
    /\ calls = {}
    /\ zap_error = None
    /\ forward = {}
    /\ relays = <<>>
    /\ storage_ok = TRUE
    /\ connected_relays = <<>>
    /\ sent = 0
    /\ cursor = <<>>
    /\ missed = <<>>
    /\ shutting_down = FALSE
    /\ to_overlord = <<>>
    /\ overlord = "running"
    /\ waiting_for = {}
    /\ jobs = [a \in Agents |-> 0]
    /\ rejected = {}
    /\ rw_writer = None
    /\ rw_readers = {}
    /\ wpc = [t \in Writers |-> "idle"]
    /\ wargs = [t \in Writers |-> None]
    /\ found = [t \in Writers |-> None]
    /\ rpc = [t \in Readers |-> "idle"]
    /\ rquery = [t \in Readers |-> None]
    /\ seen = [t \in Readers |-> <<>>]
    /\ result = [t \in Readers |-> None]
    /\ snap = [t \in Readers |-> <<>>]
    /\ acquired = [t \in Readers |-> 0]

\* The relationship graph alone, with edges of every kind.
Next ==
    \E id \in Ids, related \in Ids, relationship \in GraphInputs :
        add_relationship(id, related, relationship) /\ UNCHANGED forward

Spec == Init /\ [][Next]_vars

\* Reactions, with the event store and the signer they read.
NextReactions ==
    \/ \E id \in Ids, related \in Ids, relationship \in ReactionInputs :
            add_relationship(id, related, relationship) /\ UNCHANGED forward
    \/ \E id \in Ids, pubkey \in PublicKeys : admit(id, pubkey)
    \/ \E pk \in {None} \cup {Some(k) : k \in PublicKeys} : set_public_key(pk)

SpecReactions == Init /\ [][NextReactions]_vars

\* Edges and events arriving in any order.
NextForward ==
    \/ \E id \in Ids, related \in Ids, relationship \in ForwardInputs :
            /\ add_relationship(id, related, relationship)
            /\ Recorded(id, related, relationship)
    \/ \E id \in Ids, pubkey \in PublicKeys : admit(id, pubkey)

SpecForward == Init /\ [][NextForward]_vars

\* The zap flow.
NextZap ==
    \/ \E id \in Ids, pubkey \in PublicKeys : zap_start(id, pubkey)
    \/ \E id \in Ids, pubkey \in PublicKeys : lnurl_responded(id, pubkey)
    \/ \E id \in Ids, pubkey \in PublicKeys : choose_amount(id, pubkey)
    \/ \E id \in Ids, pubkey \in PublicKeys : invoice_returned(id, pubkey)
    \/ \E step \in {"lnurl", "invoice"}, id \in Ids, pubkey \in PublicKeys :
            call_failed(step, id, pubkey)
    \/ zap_cancel

SpecZap == Init /\ [][NextZap]_vars

\* The signer and the relay records get_your_nprofile reads.
NextProfile ==
    \/ \E pk \in {None} \cup {Some(k) : k \in PublicKeys} : set_public_key(pk)
    \/ \E text \in Urls, bits \in SUBSET UsageBits, rank \in Ranks :
            write_relay(text, bits, rank)
    \/ \E ok \in BOOLEAN : storage_fault(ok)

SpecProfile == Init /\ [][NextProfile]_vars

\* The broadcast channel and the receivers of the minions.
NextBroadcast ==
    \/ send
    \/ \E a \in Agents : subscribe(a)
    \/ \E a \in Agents : unsubscribe(a)
    \/ \E a \in Agents : recv(a)

SpecBroadcast == Init /\ [][NextBroadcast]_vars

\* The overlord, its command queue and the minions it starts and stops.
NextShutdown ==
    \/ \E c \in Commands : command(c)
    \/ \E a \in Agents : handle_job(a)
    \/ handle_shutdown
    \/ \E a \in Agents : minion_shutdown(a)
    \/ \E a \in Agents : minion_exit(a)
    \/ overlord_finish

SpecShutdown == Init /\ [][NextShutdown]_vars

\* The relay records and the connected relays the picker reads.
NextPicker ==
    \/ \E text \in Urls, bits \in SUBSET UsageBits, rank \in Ranks :
            write_relay(text, bits, rank)
    \/ \E text \in Urls : connect(text)
    \/ \E text \in Urls : disconnect(text)
    \/ \E text \in Urls : assign(text, "job")

SpecPicker == Init /\ [][NextPicker]_vars

\* Concurrent calls of add_relationship and of the queries.
NextLock ==
    \/ \E t \in Writers, r \in LockEdges : w_call(t, LockTarget, r)
    \/ \E t \in Writers : w_lock(t)
    \/ \E t \in Writers : w_check(t)
    \/ \E t \in Writers : w_push(t)
    \/ \E t \in Readers, query \in Queries, id \in Ids : r_call(t, query, id)
    \/ \E t \in Readers : r_lock(t)
    \/ \E t \in Readers : r_step(t)
    \/ \E t \in Readers : r_unlock(t)

SpecLock == Init /\ [][NextLock]_vars

\* ------------------------------------------------------------------ claims

\* The edge list of a target, empty when the graph has no entry for it.
EdgesOf(T) == IF T \in DOMAIN relationships THEN relationships[T] ELSE <<>>

Range(seq) == {seq[i] : i \in 1..Len(seq)}

RECURSIVE SumOver(_, _)
SumOver(vec, idx) ==
    IF idx = {} THEN 0
    ELSE LET i == CHOOSE x \in idx : TRUE
         IN vec[i][2][2] + SumOver(vec, idx \ {i})

\* C1: add_relationship is idempotent per (target, source, kind): the edge
\* list of every target holds each (source, kind) pair at most once, and
\* adding an edge a second time leaves the graph as the first call left it.
C1_Idempotent ==
    /\ \A T \in DOMAIN relationships :
          \A i, j \in 1..Len(relationships[T]) :
              relationships[T][i] = relationships[T][j] => i = j
    /\ \A id \in Ids, related \in Ids, relationship \in GraphInputs :
          LET once == insert_edge(relationships, id, <<related, relationship>>)
          IN insert_edge(once, id, <<related, relationship>>) = once

\* C1 witness: a target holds two edges of one source that differ in kind
\* only, and an edge it already holds is added again without effect.
C1_Witness ==
    \E T \in DOMAIN relationships :
        /\ \E i, j \in 1..Len(relationships[T]) :
              /\ i # j
              /\ relationships[T][i][1] = relationships[T][j][1]
        /\ insert_edge(relationships, T, relationships[T][1]) = relationships

\* C3: get_zap_total_sync(T) is the sum of the amounts of all the ZapReceipt
\* edges of T's list, each edge counted (no de-duplication by source or by
\* amount), and edges of other kinds add nothing.
C3_ZapTotal ==
    \A T \in Ids :
        get_zap_total_sync(T) =
            SumOver(EdgesOf(T),
                    {i \in 1..Len(EdgesOf(T)) : EdgesOf(T)[i][2][1] = "ZapReceipt"})

\* C3 witness: receipts of 1000, 2000 and 500 on one target total 3500.
C3_Witness ==
    \E T \in Ids :
        /\ {EdgesOf(T)[i][2] : i \in 1..Len(EdgesOf(T))}
               = {ZapReceipt(1000), ZapReceipt(2000), ZapReceipt(500)}
        /\ get_zap_total_sync(T) = 3500

\* C3 witness of the same amount twice: two receipts of 1000 from two source
\* events total 2000.
C3_SameAmountTwice ==
    \E T \in Ids :
        /\ EdgesOf(T) = <<<<1, ZapReceipt(1000)>>, <<2, ZapReceipt(1000)>>>>
        /\ get_zap_total_sync(T) = 2000

\* C4: deletion is first-wins: get_deletion_sync(T) is the reason of the
\* Deletion edge inserted earliest into T's list, whatever edges of other
\* kinds precede it, and None when T has no Deletion edge.
C4_DeletionFirstWins ==
    \A T \in Ids :
        LET vec == EdgesOf(T)
            dels == {i \in 1..Len(vec) : vec[i][2][1] = "Deletion"}
        IN IF dels = {}
           THEN get_deletion_sync(T) = None
           ELSE \E i \in dels :
                   /\ \A j \in dels : i <= j
                   /\ get_deletion_sync(T) = Some(vec[i][2][2])

\* C4 witness: a reply, then "spam", then "duplicate": the reason is "spam".
C4_Witness ==
    \E T \in Ids :
        /\ Len(EdgesOf(T)) = 3
        /\ EdgesOf(T)[1][2] = Reply
        /\ EdgesOf(T)[2][2] = Deletion("spam")
        /\ EdgesOf(T)[3][2] = Deletion("duplicate")
        /\ get_deletion_sync(T) = Some("spam")

\* C6: get_replies_sync(T) is the source ids of the Reply edges of T's list,
\* in insertion order, and the id of no edge of another kind.
C6_Replies ==
    \A T \in Ids :
        LET rs == SelectSeq(EdgesOf(T), LAMBDA e : e[2] = Reply)
        IN get_replies_sync(T) = [i \in 1..Len(rs) |-> rs[i][1]]

\* C6 witness: a reply from 2, a deletion by 1, a reply from 1: the replies
\* are 2 then 1.
C6_Witness ==
    \E T \in Ids :
        /\ EdgesOf(T) = <<<<2, Reply>>, <<1, Deletion("spam")>>, <<1, Reply>>>>
        /\ get_replies_sync(T) = <<2, 1>>

\* The symbol a reaction text is grouped under.
FirstChar(text) == IF text = <<>> THEN "+" ELSE text[1]

Symbols == {"+", "-", "1"}

\* The places in T's list of the Reaction edges of symbol c whose reacting
\* event the event store holds.
ReactionsAt(T, c) ==
    LET vec == EdgesOf(T)
    IN {i \in 1..Len(vec) :
           /\ vec[i][2][1] = "Reaction"
           /\ FirstChar(vec[i][2][2]) = c
           /\ vec[i][1] \in DOMAIN events}

\* The author keys of those reacting events.
Reactors(T, c) ==
    LET vec == EdgesOf(T)
    IN {events[vec[i][1]].pubkey : i \in ReactionsAt(T, c)}

\* The tally get_reactions_sync reports.
TallyOf(T) == get_reactions_sync(T)[1]

C7_PerSymbolAuthors ==
    \A T \in Ids :
        LET tally == TallyOf(T)
            reactors == [c \in Symbols |-> Reactors(T, c)]
        IN /\ Range(tally) =
                 {<<c, Cardinality(reactors[c])>> :
                     c \in {x \in Symbols : reactors[x] # {}}}
           /\ \A i, j \in 1..Len(tally) : tally[i][1] = tally[j][1] => i = j

\* C7 witness: one author reacts to a target three times, with "", "+" and
\* "-1": "+" and "-" each count 1.
C7_Witness ==
    \E T \in Ids, k \in PublicKeys :
        /\ Len(EdgesOf(T)) = 3
        /\ Cardinality(ReactionsAt(T, "+")) = 2
        /\ Cardinality(ReactionsAt(T, "-")) = 1
        /\ Reactors(T, "+") = {k}
        /\ Reactors(T, "-") = {k}
        /\ TallyOf(T) = <<<<"+", 1>>, <<"-", 1>>>>

\* C8: self_already_reacted is true exactly when the signer's public key is
\* set and is the author key of an event (one the store holds) that is the
\* source of a Reaction edge on T; with no key set it is false everywhere.
C8_SelfReacted ==
    \A T \in Ids :
        get_reactions_sync(T)[2] =
            (/\ public_key # None
             /\ \E c \in Symbols : \E k \in Reactors(T, c) : public_key = Some(k))

\* C8 witness: the signer's reaction is followed by another author's, and
\* the flag is true.
C8_Witness ==
    \E T \in Ids :
        /\ get_reactions_sync(T)[2]
        /\ Len(EdgesOf(T)) >= 2
        /\ \A i \in 1..Len(EdgesOf(T)) : EdgesOf(T)[i][1] \in DOMAIN events
        /\ Some(events[EdgesOf(T)[Len(EdgesOf(T))][1]].pubkey) # public_key

\* Whether the query of the edge's kind, asked about T, includes edge r.
Included(T, r) ==
    CASE r[2] = Reply -> r[1] \in Range(get_replies_sync(T))
      [] r[2][1] = "ZapReceipt" ->
            /\ Contains(EdgesOf(T), r)
            /\ get_zap_total_sync(T) =
                  SumOver(EdgesOf(T),
                      {i \in 1..Len(EdgesOf(T)) : EdgesOf(T)[i][2][1] = "ZapReceipt"})
      [] r[2][1] = "Reaction" ->
            r[1] \in DOMAIN events =>
                \E i \in 1..Len(TallyOf(T)) :
                    /\ TallyOf(T)[i][1] = FirstChar(r[2][2])
                    /\ TallyOf(T)[i][2] >= 1
                    /\ events[r[1]].pubkey \in Reactors(T, FirstChar(r[2][2]))
      [] OTHER -> Contains(EdgesOf(T), r)

\* C5: an edge added for a target that is not in the event store is stored
\* and kept, and the queries about the target include it, before and after
\* the target event is admitted (a reaction through its reacting event in
\* the store).
C5_ForwardReference ==
    \A p \in forward :
        /\ Contains(EdgesOf(p[1]), p[2])
        /\ Included(p[1], p[2])

\* C5 witness: a reply, a reaction and a zap receipt arrived for a target
\* before the target event, which is now in the store; the three queries
\* report them.
C5_Witness ==
    \E T \in DOMAIN events :
        /\ Len(EdgesOf(T)) = 3
        /\ {p \in forward : p[1] = T} = {<<T, EdgesOf(T)[i]>> : i \in 1..3}
        /\ {EdgesOf(T)[i][2] : i \in 1..3} = ForwardInputs
        /\ Len(get_replies_sync(T)) = 1
        /\ TallyOf(T) = <<<<"+", 1>>>>
        /\ get_zap_total_sync(T) = 500

\* The target event a zap state carries, None for Idle.
ZapTarget(zap) == IF zap = ZapNone THEN None ELSE Some(zap[2])

\* The next forward step of the chain, with the same target and recipient.
ForwardStep(zap, next) ==
    \/ /\ zap[1] = "CheckingLnurl"
       /\ next = SeekingAmount(zap[2], zap[3])
    \/ /\ zap[1] = "SeekingAmount"
       /\ next = LoadingInvoice(zap[2], zap[3])
    \/ /\ zap[1] = "LoadingInvoice"
       /\ next = ReadyToPay(zap[2])

\* The first step: Idle to CheckingLnurl.
FirstStep(zap, next) == zap = ZapNone /\ next[1] = "CheckingLnurl"

\* A reset to Idle from a state that is not Idle.
Reset(zap, next) == zap # ZapNone /\ next = ZapNone

C10_SingleFlow ==
    [][/\ \A id \in Ids, pubkey \in PublicKeys :
             zap_start(id, pubkey) => current_zap' = CheckingLnurl(id, pubkey)
       /\ \A id \in Ids, pubkey \in PublicKeys :
             (/\ ZapTarget(current_zap) \notin {None, Some(id)}
              /\ \/ lnurl_responded(id, pubkey)
                 \/ invoice_returned(id, pubkey)
                 \/ \E step \in {"lnurl", "invoice"} : call_failed(step, id, pubkey))
             => current_zap' = current_zap
       /\ (/\ ZapTarget(current_zap') # ZapTarget(current_zap)
           /\ current_zap' # ZapNone)
          => current_zap'[1] = "CheckingLnurl"]_vars

\* C10 witness: B's flow is seeking an amount while a call made for another
\* target A is still in flight.
C10_Witness ==
    \E id \in Ids, pubkey \in PublicKeys :
        /\ current_zap = SeekingAmount(id, pubkey)
        /\ \E c \in calls : c[2] # id

\* The external call a zap state waits for, None when it waits for none
\* (Idle, SeekingAmount, which waits for the user, and ReadyToPay).
AwaitedCall(zap) ==
    CASE zap[1] = "CheckingLnurl" -> Some(<<"lnurl", zap[2], zap[3]>>)
      [] zap[1] = "LoadingInvoice" -> Some(<<"invoice", zap[2], zap[3]>>)
      [] OTHER -> None

\* C11: the failure of the external call a zap flow waits for, at the LNURL
\* step or at the invoice step, resets the ZapState to Idle and shows the
\* error of that step; and a state that waits for a call always has that
\* call in flight, so no flow is left in an in-progress state that nothing
\* will move.
C11_FailureResets ==
    /\ [](AwaitedCall(current_zap) # None => AwaitedCall(current_zap)[1] \in calls)
    /\ [][\A step \in {"lnurl", "invoice"}, id \in Ids, pubkey \in PublicKeys :
            (/\ AwaitedCall(current_zap) = Some(<<step, id, pubkey>>)
             /\ call_failed(step, id, pubkey))
            => /\ current_zap' = ZapNone
               /\ zap_error' = Some(step)]_vars

\* C11 witness: the invoice call of a flow failed, the third step of the
\* chain, and the state is Idle with the error of that step shown.
C11_Witness == current_zap = ZapNone /\ zap_error = Some("invoice")

\* C13 as stated: a minion receives every message sent on to_minions after
\* it subscribed, in the order of sending, and none sent before: a new
\* receiver starts behind all that was sent, each recv() returns the message
\* next to the last one the receiver passed, and no message is passed
\* without being returned.
C13_Original ==
    /\ [](\A a \in DOMAIN cursor : missed[a] = 0)
    /\ [][\A a \in Agents :
            /\ subscribe(a) => cursor'[a] = sent
            /\ recv(a) => /\ recv_result(sent, cursor[a]) = Ok(cursor[a] + 1)
                          /\ cursor'[a] = cursor[a] + 1]_vars

\* C13 amended: a new receiver starts behind all that was sent, and a
\* receiver passes the messages in the order of sending; recv() returns the
\* message next to the last one passed while the receiver is at most
\* Capacity messages behind, and when it is n more than Capacity behind
\* recv() returns Lagged(n) and the n oldest unread messages are lost to it.
C13_DeliveryUnlessLagged ==
    /\ [](\A a \in DOMAIN cursor : cursor[a] <= sent)
    /\ [][\A a \in Agents :
            /\ subscribe(a) => cursor'[a] = sent /\ missed'[a] = 0
            /\ recv(a) =>
                  IF sent - cursor[a] <= Capacity
                  THEN /\ recv_result(sent, cursor[a]) = Ok(cursor[a] + 1)
                       /\ cursor'[a] = cursor[a] + 1
                       /\ missed'[a] = missed[a]
                  ELSE /\ recv_result(sent, cursor[a])
                              = Lagged(sent - cursor[a] - Capacity)
                       /\ cursor'[a] = sent - Capacity
                       /\ missed'[a] = missed[a] + (cursor'[a] - cursor[a])]_vars

\* C13 witness: one minion fell more than Capacity messages behind, lost a
\* message and has read all the others, while a minion that subscribed
\* later and lost nothing has not yet read the last message.
C13_Witness ==
    \E a, b \in DOMAIN cursor :
        /\ missed[a] > 0
        /\ cursor[a] = sent
        /\ missed[b] = 0
        /\ cursor[b] < sent

\* C12: once shutting_down is set it stays set, no job is assigned and no
\* minion is started; the command that sets it broadcasts shutdown so that
\* every minion running at that moment has the message unread, and makes
\* the overlord wait for exactly those minions; and the overlord's shutdown
\* is not complete while one of them is still running.
C12_Shutdown ==
    /\ [](overlord = "done" => waiting_for \cap DOMAIN cursor = {})
    /\ [][shutting_down =>
            /\ shutting_down'
            /\ \A a \in Agents : jobs'[a] <= jobs[a]
            /\ DOMAIN cursor' \subseteq DOMAIN cursor]_vars
    /\ [][(~shutting_down /\ shutting_down') =>
            /\ waiting_for' = DOMAIN cursor
            /\ \A a \in DOMAIN cursor :
                  /\ a \in DOMAIN cursor'
                  /\ cursor'[a] < sent'
                  /\ recv_result(sent', cursor'[a])[1] = "Ok"]_vars

\* C12 witness: shutdown was issued while both minions ran, a job command
\* that came after it was refused, both minions have reported termination
\* and the overlord's shutdown is complete.
C12_Witness ==
    /\ overlord = "done"
    /\ waiting_for = Agents
    /\ rejected # {}

\* C14: for every need, the relay best_relay_for returns is a known relay
\* that has the capability bit of the need, whichever relays are connected,
\* and it returns None exactly when no known relay has that bit.
C14_PickerExclusion ==
    \A need \in UsageBits :
        LET picked == best_relay_for(need)
            qualified == {u \in DOMAIN relays : need \in relays[u].usage_bits}
        IN IF qualified = {}
           THEN picked = None
           ELSE \E u \in qualified : picked = Some(RelayUrl(u))

\* C14 witness: the one connected relay is known and lacks the OUTBOX bit,
\* another relay is known, and none has the bit: an outbox need gets None,
\* while an inbox need gets the connected relay.
C14_Witness ==
    \E u \in DOMAIN relays :
        /\ DOMAIN connected_relays = {u}
        /\ DOMAIN relays # {u}
        /\ \A v \in DOMAIN relays : OUTBOX \notin relays[v].usage_bits
        /\ best_relay_for(OUTBOX) = None
        /\ best_relay_for(INBOX) = Some(RelayUrl(u))

\* C14 witness of a connection that does not qualify: the one connected
\* relay lacks the OUTBOX bit and has the higher rank, a relay that is not
\* connected has the bit, and the outbox need gets the latter.
C14_UnconnectedPicked ==
    \E u, v \in DOMAIN relays :
        /\ DOMAIN connected_relays = {u}
        /\ OUTBOX \notin relays[u].usage_bits
        /\ relays[u].rank > relays[v].rank
        /\ best_relay_for(OUTBOX) = Some(RelayUrl(v))

\* The tasks that hold the write lock of the relationships.
Writing == {t \in Writers : wpc[t] \in {"check", "push"}}

\* C15: at most one task is between taking the write lock and dropping it,
\* and none holds the read lock meanwhile; the look for the edge and the
\* push that follows act as one insert on the graph as it is at the push;
\* so the list of the target holds no edge twice, however the calls
\* interleave, and it holds the edge of every call that has returned.
C15_AtomicInsert ==
    /\ [](/\ Cardinality(Writing) <= 1
          /\ Writing # {} => rw_readers = {})
    /\ [](\A i, j \in 1..Len(EdgesOf(LockTarget)) :
              EdgesOf(LockTarget)[i] = EdgesOf(LockTarget)[j] => i = j)
    /\ [](\A t \in Writers :
              (wpc[t] = "idle" /\ wargs[t] # None)
                  => Contains(EdgesOf(wargs[t][1][1]), wargs[t][1][2]))
    /\ [][\A t \in Writers :
              (wpc[t] = "push" /\ wpc'[t] = "idle")
                  => relationships' =
                         insert_edge(relationships, wargs[t][1][1], wargs[t][1][2])]_vars

\* C15 witness: the two tasks have both returned from a call with the same
\* edge, one of them having waited for the lock, and the list of the target
\* holds that edge once, after another edge.
C15_Witness ==
    /\ \A t \in Writers : wpc[t] = "idle"
    /\ wargs["w1"] = wargs["w2"]
    /\ wargs["w1"] # None
    /\ Len(EdgesOf(LockTarget)) = 2
    /\ EdgesOf(LockTarget)[2] = wargs["w1"][1][2]

\* C16: a query takes the read lock once; while it holds it the list of the
\* target is the list it found when it took the lock, and what its loop has
\* visited is a part of that list from the start; and what it returns is
\* the query evaluated on that one list.
C16_Snapshot ==
    \A t \in Readers :
        /\ rpc[t] = "reading" =>
              /\ EdgesOf(rquery[t][1][2]) = snap[t]
              /\ Len(seen[t]) <= Len(snap[t])
              /\ seen[t] = SubSeq(snap[t], 1, Len(seen[t]))
              /\ acquired[t] = 1
        /\ rpc[t] = "done" =>
              /\ result[t] = Some(query_on(rquery[t][1][1], snap[t]))
              /\ acquired[t] = 1

\* C16 witness: get_replies_sync has returned the replies of the list it
\* found, one edge long, and a call of add_relationship that waited for the
\* lock has since made the list longer.
C16_Witness ==
    \E t \in Readers :
        /\ rpc[t] = "done"
        /\ rquery[t] = Some(<<"get_replies_sync", LockTarget>>)
        /\ Len(snap[t]) = 1
        /\ result[t] = Some(<<snap[t][1][1]>>)
        /\ Len(EdgesOf(LockTarget)) > 1

\* What each query returns for a list without edges.
EmptyResult(query) ==
    CASE query = "get_replies_sync" -> <<>>
      [] query = "get_reactions_sync" -> <<<<>>, FALSE>>
      [] query = "get_zap_total_sync" -> 0
      [] query = "get_deletion_sync" -> None

\* C17: for a target that has no entry in the graph, get_replies_sync
\* returns the empty sequence, get_reactions_sync the empty tally and false,
\* get_zap_total_sync 0 and get_deletion_sync None; a call of a query about
\* such a target returns that value, and no step of a query changes the
\* graph.
C17_Total ==
    /\ [](\A T \in Ids :
              T \notin DOMAIN relationships
                  => /\ get_replies_sync(T) = <<>>
                     /\ get_reactions_sync(T) = <<<<>>, FALSE>>
                     /\ get_zap_total_sync(T) = 0
                     /\ get_deletion_sync(T) = None)
    /\ [](\A t \in Readers :
              (rpc[t] = "done" /\ rquery[t][1][2] \notin DOMAIN relationships)
                  => result[t] = Some(EmptyResult(rquery[t][1][1])))
    /\ [][\A t \in Readers :
              (rpc'[t] # rpc[t] \/ seen'[t] # seen[t])
                  => relationships' = relationships]_vars

\* C17 witness: the graph has an entry for one target, and
\* get_reactions_sync, asked about a target that has none, has returned the
\* empty tally and false.
C17_Witness ==
    \E t \in Readers, T \in Ids :
        /\ T \notin DOMAIN relationships
        /\ DOMAIN relationships # {}
        /\ rpc[t] = "done"
        /\ rquery[t] = Some(<<"get_reactions_sync", T>>)
        /\ result[t] = Some(<<<<>>, FALSE>>)

\* The urls of the relay records in the storage that have the OUTBOX bit.
OutboxUrls == {UncheckedUrl(u) : u \in {v \in DOMAIN relays : OUTBOX \in relays[v].usage_bits}}

\* C18: get_your_nprofile returns None when the signer has no public key,
\* and None when the storage fails the relay query; otherwise it returns a
\* profile with the signer's key and with the urls of exactly the relay
\* records that have the OUTBOX bit, each once.
C18_Nprofile ==
    /\ public_key = None => get_your_nprofile = None
    /\ ~storage_ok => get_your_nprofile = None
    /\ (public_key # None /\ storage_ok) =>
          /\ get_your_nprofile # None
          /\ get_your_nprofile[1].pubkey = public_key[1]
          /\ Range(get_your_nprofile[1].relays) = OutboxUrls
          /\ Len(get_your_nprofile[1].relays) = Cardinality(OutboxUrls)

\* C18 witness: the storage holds three relays, one with the INBOX bit only,
\* one with the OUTBOX bit only and one with both, the signer has a key, and
\* the profile lists the two with the OUTBOX bit.
C18_Witness ==
    /\ public_key # None
    /\ storage_ok
    /\ DOMAIN relays = Urls
    /\ {relays[u].usage_bits : u \in Urls} = {{INBOX}, {OUTBOX}, {INBOX, OUTBOX}}
    /\ Len(get_your_nprofile[1].relays) = 2

\* C18 witness of the failure: the signer has a key and the storage holds a
\* relay with the OUTBOX bit, the relay query fails, and there is no profile.
C18_StorageFails ==
    /\ public_key # None
    /\ ~storage_ok
    /\ \E u \in DOMAIN relays : OUTBOX \in relays[u].usage_bits
    /\ get_your_nprofile = None

\* The edges of T whose source event the event store holds.
StoredEdges(T) == SelectSeq(EdgesOf(T), LAMBDA e : e[1] \in DOMAIN events)

\* The symbols get_reactions_sync reports for T.
TallySymbols(T) == {TallyOf(T)[i][1] : i \in 1..Len(TallyOf(T))}

\* C19: the Reaction edges whose source event is not in the event store
\* count for nothing, and those whose source event is in it count, in every
\* state, so from the admission of the source on: get_reactions_sync(T) is
\* what it would be without the edges of absent sources, it reports a
\* symbol exactly when a Reaction edge of that symbol has its source in the
\* store, and it sets the flag only when such a source is by the signer.
C19_CountedWhileStored ==
    \A T \in Ids :
        /\ get_reactions_sync(T) = query_on("get_reactions_sync", StoredEdges(T))
        /\ TallySymbols(T) = {c \in Symbols : ReactionsAt(T, c) # {}}
        /\ get_reactions_sync(T)[2] =>
              \E i \in 1..Len(StoredEdges(T)) :
                  /\ StoredEdges(T)[i][2][1] = "Reaction"
                  /\ Some(events[StoredEdges(T)[i][1]].pubkey) = public_key

\* C19 witness: a target has a "-1" reaction whose source event is not in
\* the store and a "+" reaction whose source event has been admitted, by
\* the signer, and the tally is one "+" and no "-", with the flag set.
C19_Witness ==
    \E T \in Ids :
        /\ \E i \in 1..Len(EdgesOf(T)) :
              /\ EdgesOf(T)[i][2] = Reaction(<<"-", "1">>)
              /\ EdgesOf(T)[i][1] \notin DOMAIN events
        /\ \E i \in 1..Len(EdgesOf(T)) :
              /\ EdgesOf(T)[i][2] = Reaction(<<"+">>)
              /\ EdgesOf(T)[i][1] \in DOMAIN events
        /\ TallyOf(T) = <<<<"+", 1>>>>
        /\ get_reactions_sync(T)[2]

\* Whether sequence short is the start of sequence long.
IsPrefix(short, long) ==
    /\ Len(short) <= Len(long)
    /\ short = SubSeq(long, 1, Len(short))

\* C20: every step keeps each entry of the graph and keeps each target's
\* list as the start of the list after the step, so edges are only added,
\* at the end; and with it get_replies_sync(T) is kept as the start of its
\* later value, get_zap_total_sync(T) does not decrease, and a reason
\* get_deletion_sync(T) has returned is the reason it returns afterwards.
C20_AppendOnly ==
    [][\A T \in Ids :
          /\ T \in DOMAIN relationships => T \in DOMAIN relationships'
          /\ IsPrefix(EdgesOf(T), EdgesOf(T)')
          /\ IsPrefix(get_replies_sync(T), get_replies_sync(T)')
          /\ get_zap_total_sync(T) <= get_zap_total_sync(T)'
          /\ get_deletion_sync(T) # None
                => get_deletion_sync(T)' = get_deletion_sync(T)]_vars

\* C20 witness: a target was deleted for "spam", then got a zap receipt and
\* a deletion for "duplicate": the first edge is still the first, the reason
\* is still "spam" and the total has grown to 500.
C20_Witness ==
    \E T \in Ids :
        /\ Len(EdgesOf(T)) = 3
        /\ EdgesOf(T)[1][2] = Deletion("spam")
        /\ EdgesOf(T)[2][2] = ZapReceipt(500)
        /\ EdgesOf(T)[3][2] = Deletion("duplicate")
        /\ get_deletion_sync(T) = Some("spam")
        /\ get_zap_total_sync(T) = 500

====
